---- MODULE Spec2Model ----
(***************************************************************************)
(* Model of build.py, the klepto build orchestration script.               *)
(*                                                                         *)
(* The script is one linear program.  Each action below is one phase of    *)
(* it; pc names the phase that runs next.  The command line is fixed in    *)
(* the initial state; what the script reads from its environment (the      *)
(* search path, the package database, the source tree, exit codes of the   *)
(* subprocesses it launches) is chosen when the script reads it.           *)
(*                                                                         *)
(* Python values: False and None are the strings PyFalse and PyNone, a     *)
(* path is the sequence of its components, a dict is a function.           *)
(***************************************************************************)
EXTENDS Integers, Sequences, FiniteSets, TLC

\* ---------------------------------------------------------------- bounds
\* number of --only-* flags on the command line
MaxFlags == 2
\* number of lines in the output of the package query
MaxLines == 3
\* number of statements in swift/CMakeLists.txt
MaxStmts == 3

\* ------------------------------------------------------- python helpers
PyFalse == "<False>"
PyNone == "<None>"

\* truth value of a str / False / None
Truthy(v) == v \notin {PyFalse, PyNone, ""}

Range(s) == {s[i] : i \in 1..Len(s)}

SeqsUpTo(S, n) == UNION {[1..k -> S] : k \in 0..n}

\* str.upper() on the values of Configuration
Upper(s) ==
    CASE s = "release" -> "RELEASE"
      [] s = "debug" -> "DEBUG"
      [] OTHER -> s

\* ------------------------------------------------------------- products
Configuration == {"release", "debug"}

products ==
    << [name |-> "libdispatch", install_path |-> "toolchain",
        build_and_install_func |-> "build_libdispatch"],
       [name |-> "icu", install_path |-> "icu",
        build_and_install_func |-> "build_icu"],
       [name |-> "toolchain", install_path |-> "toolchain",
        build_and_install_func |-> "build_toolchain"],
       [name |-> "swiftpm", install_path |-> "swiftpm",
        build_and_install_func |-> "build_swiftpm"],
       [name |-> "frontend", install_path |-> "klepto-frontend",
        build_and_install_func |-> "build_frontend"] >>

ProductNames == {products[i].name : i \in 1..Len(products)}

required_software == <<"clang", "clang++", "swift", "python3", "cmake">>

relevant_packages == {"libnx", "devkitA64"}

\* lsb_release id + release + platform.processor() of the build host
platform_string == "ubuntu20.04-x86_64"

\* ---------------------------------------------------------- command line
\* only: the --only-<product> flags in the order given (repeats allowed)
\* package: "<absent>" no --package, "<novalue>" a bare --package,
\*          otherwise the location given
CommandLines ==
    [only : SeqsUpTo(ProductNames, MaxFlags),
     install_destdir : {PyNone, "out"},
     configuration : Configuration,
     package : {"<absent>", "<novalue>", "pkgs", ""},
     dry_run : BOOLEAN,
     no_reconfigure : BOOLEAN]

VARIABLES
    pc,                \* phase of the script that runs next
    argv,              \* the command line
    args,              \* the parsed arguments
    env,               \* what the script has read of its environment
    using,             \* name of the package query command
    query,             \* result of the package query
    versions,          \* the VersionMap
    swift_cmakelists,  \* swift/CMakeLists.txt as the script found it
    swift_version,
    klepto_version,
    devkitpro_path,
    versions_str,
    dist_name,
    install_destdir,
    products_to_build,
    idx,               \* position of the build loop in products_to_build
    fs,                \* paths created by this run
    klepto_path,       \* <destdir>/klepto: state found and state left
    procs,             \* subprocesses launched, with their exit codes
    invoked,           \* builders invoked, in order
    manifest,          \* content of manifest.json and number of writes
    archive,           \* the .tar.gz written
    fail_message,      \* the message printed after "!!! "
    exception,         \* uncaught exception that ended the run
    exit_status

vars == <<pc, argv, args, env, using, query, versions, swift_cmakelists,
          swift_version,
          klepto_version, devkitpro_path, versions_str, dist_name,
          install_destdir, products_to_build, idx, fs, klepto_path, procs,
          invoked, manifest, archive, fail_message, exception, exit_status>>

\* variables of the version resolution
resolveVars == <<using, query, versions, swift_version, klepto_version,
                 devkitpro_path>>
\* variables of the build preparation
prepareVars == <<versions_str, dist_name, install_destdir,
                 products_to_build, idx>>
\* variables of the build and of what it leaves behind
buildVars == <<fs, klepto_path, invoked, manifest, archive>>
\* every variable but pc, the exit state and the arguments
restVars == <<resolveVars, swift_cmakelists, prepareVars, buildVars, procs>>

Running == -1

\* which: the required executables found on the search path
\* dkp_pacman, pacman: the command could be launched
\* icu: libicuuc-libnx exists; devkitpro: the directory DEVKITPRO names
\* exists; read: the entries the script has looked at so far
Unread ==
    [read |-> {}, which |-> {}, dkp_pacman |-> FALSE, pacman |-> FALSE,
     icu |-> FALSE, devkitpro |-> FALSE]

InitWith(cmdlines) ==
    /\ pc = "parse_args"
    /\ argv \in cmdlines
    /\ args = PyNone
    /\ env = Unread
    /\ using = PyNone
    /\ query = [type |-> PyNone]
    /\ versions = [k \in {} |-> ""]
    /\ swift_cmakelists = [exists |-> FALSE, text |-> <<>>]
    /\ swift_version = PyNone
    /\ klepto_version = PyNone
    /\ devkitpro_path = PyNone
    /\ versions_str = PyNone
    /\ dist_name = PyNone
    /\ install_destdir = <<>>
    /\ products_to_build = <<>>
    /\ idx = 0
    /\ fs = {}
    /\ klepto_path = [found |-> "unread", left |-> "unread"]
    /\ procs = <<>>
    /\ invoked = <<>>
    /\ manifest = [writes |-> 0, content |-> [versions |-> <<>>]]
    /\ archive = [file |-> <<>>, members |-> {}]
    /\ fail_message = ""
    /\ exception = ""
    /\ exit_status = Running

Init == InitWith(CommandLines)

\* ------------------------------------------------------------ fail, exit
\* fail(message): print "!!! message" and exit(1)
fail(message) ==
    /\ pc' = "exited"
    /\ fail_message' = message
    /\ exit_status' = 1
    /\ UNCHANGED exception

\* an exception nobody catches: traceback and exit status 1
Raise(exc) ==
    /\ pc' = "exited"
    /\ exception' = exc
    /\ exit_status' = 1
    /\ UNCHANGED fail_message

Goto(label) ==
    /\ pc' = label
    /\ UNCHANGED <<fail_message, exception, exit_status>>

\* ------------------------------------------------------ argument parsing
\* store_true of the --only-* flags, one flag at a time
RECURSIVE StoreOnly(_, _)
StoreOnly(flags, only) ==
    IF flags = <<>> THEN only
    ELSE StoreOnly(Tail(flags), [only EXCEPT ![Head(flags)] = TRUE])

\* nargs="?", default=False, const="dist"
PackageArg(p) ==
    CASE p = "<absent>" -> PyFalse
      [] p = "<novalue>" -> "dist"
      [] OTHER -> p

parse_args(cmd) ==
    [only |-> StoreOnly(cmd.only, [n \in ProductNames |-> FALSE]),
     install_destdir |-> cmd.install_destdir,
     configuration |-> cmd.configuration,
     package |-> PackageArg(cmd.package),
     dry_run |-> cmd.dry_run,
     reconfigure |-> ~cmd.no_reconfigure]

ParseArgs ==
    /\ pc = "parse_args"
    /\ args' = parse_args(argv)
    /\ Goto("sanity_check")
    /\ UNCHANGED <<argv, env, restVars>>

\* FirstOnly with a loop that looks at the first product alone
FirstOnlyOfFirstProduct(a) == IF a.only[products[1].name] THEN 1 ELSE 0

\* first product, in registry order, whose --only flag is set (0 if none)
FirstOnly(a) ==
    LET set == {i \in 1..Len(products) : a.only[products[i].name]}
    IN IF set = {} THEN 0 ELSE CHOOSE i \in set : \A j \in set : i <= j

ArgumentsSanityCheck ==
    /\ pc = "sanity_check"
    /\ IF Truthy(args.package) /\ FirstOnly(args) # 0
       THEN fail("Cannot use --package with --only-"
                 \o products[FirstOnly(args)].name)
       ELSE Goto("required_software")
    /\ UNCHANGED <<argv, args, env, restVars>>

\* FirstMissing with the last entry of required_software left out
FirstMissingButLast(found) ==
    LET miss == {i \in 1..Len(required_software) - 1 :
                    required_software[i] \notin found}
    IN IF miss = {} THEN 0 ELSE CHOOSE i \in miss : \A j \in miss : i <= j

\* which(software) for each required executable; found is the set on the
\* search path
FirstMissing(found) ==
    LET miss == {i \in 1..Len(required_software) :
                    required_software[i] \notin found}
    IN IF miss = {} THEN 0 ELSE CHOOSE i \in miss : \A j \in miss : i <= j

RequiredSoftwareCheck ==
    /\ pc = "required_software"
    /\ \E found \in SUBSET Range(required_software) :
          /\ env' = [env EXCEPT !.read = @ \cup {"which"}, !.which = found]
          /\ IF FirstMissing(found) # 0
             THEN fail("Could not find "
                       \o required_software[FirstMissing(found)])
             ELSE Goto("query_versions")
    /\ UNCHANGED <<argv, args, restVars>>

\* ---------------------------------------------------- version resolution
\* An output of the package query is the sequence of its lines; a line is
\* the sequence of its space separated words, the empty line is <<>>.
QueryLines ==
    { <<"devkitA64", "1.2.3">>, <<"devkitA64", "4.5.6">>,
      <<"libnx", "4.5.6">>, <<"foo", "9.9.9">>,
      <<>>, <<"deko3d">>, <<"libnx", "4.5.6", "1">> }

QueryOutputs == SeqsUpTo(QueryLines, MaxLines)

\* the example of the specification and outputs that fail each check
SampleOutputs ==
    { << <<"devkitA64", "1.2.3">>, <<"libnx", "4.5.6">>, <<"foo", "9.9.9">>,
         <<>> >>,
      << <<"libnx", "4.5.6">> >>,
      << <<"devkitA64", "1.2.3">>, <<"foo", "9.9.9">> >>,
      << <<"deko3d">> >>,
      << >> }

\* str.strip() on a whole output: leading and trailing empty lines go
RECURSIVE LStrip(_)
LStrip(text) ==
    IF text # <<>> /\ Head(text) = <<>> THEN LStrip(Tail(text)) ELSE text

RECURSIVE RStrip(_)
RStrip(text) ==
    IF text # <<>> /\ text[Len(text)] = <<>>
    THEN RStrip(SubSeq(text, 1, Len(text) - 1))
    ELSE text

Strip(text) == RStrip(LStrip(text))

\* str.split("\n"): the empty string gives one empty entry
SplitLines(text) == IF text = <<>> THEN << <<>> >> ELSE text

\* str.split(" "): the empty string gives one empty word
SplitWords(line) == IF line = <<>> THEN <<"">> ELSE line

EmptyDict == [k \in {} |-> ""]

\* dict(iterable of sequences): every element must have two items, a
\* later item replaces an earlier one with the same key
DictWellFormed(items) == \A i \in 1..Len(items) : Len(items[i]) = 2

RECURSIVE Dict(_, _)
Dict(items, d) ==
    IF items = <<>> THEN d
    ELSE LET k == Head(items)[1]
             v == Head(items)[2]
         IN Dict(Tail(items),
                 [x \in DOMAIN d \cup {k} |-> IF x = k THEN v ELSE d[x]])

\* line 372
Entries(out) == SplitLines(Strip(out))

\* line 373
EntryItems(out) == [i \in 1..Len(Entries(out)) |-> SplitWords(Entries(out)[i])]

NoQuery == [type |-> PyNone]

\* run_command(..., stdout=PIPE); the script never reads the exit code of
\* dkp-pacman, which is left out
CompletedProcess(out) == [type |-> "CompletedProcess", stdout |-> out]

\* check_output(...)
OutputBytes(out) == [type |-> "bytes", value |-> out]

QueryProc(cmd, rc) == [cmd |-> cmd, rc |-> rc, by |-> "query"]

\* lines 372-373 on the value bound to query
ParseQuery(q) ==
    IF q.type # "CompletedProcess"
    THEN /\ Raise("AttributeError")
         /\ UNCHANGED versions
    ELSE IF ~DictWellFormed(EntryItems(q.stdout))
    THEN /\ Raise("ValueError")
         /\ UNCHANGED versions
    ELSE /\ versions' = Dict(EntryItems(q.stdout), EmptyDict)
         /\ Goto("check_installed")

\* lines 356-373.  has_dkp, has_pacman: the command can be launched
ResolveVersions(outputs) ==
    /\ pc = "query_versions"
    /\ \E has_dkp \in BOOLEAN, has_pacman \in BOOLEAN, out \in outputs,
          rc \in {0, 1} :
          IF has_dkp
          THEN /\ env' = [env EXCEPT !.read = @ \cup {"dkp_pacman"},
                                     !.dkp_pacman = TRUE]
               /\ using' = "dkp-pacman"
               /\ procs' = Append(procs, QueryProc("dkp-pacman", 0))
               /\ query' = CompletedProcess(out)
               /\ ParseQuery(query')
          ELSE IF has_pacman
          THEN /\ env' = [env EXCEPT !.read = @ \cup {"dkp_pacman", "pacman"},
                                     !.pacman = TRUE]
               /\ using' = "pacman"
               /\ procs' = Append(procs, QueryProc("pacman", rc))
               /\ IF rc # 0
                  THEN /\ Raise("CalledProcessError")
                       /\ UNCHANGED <<query, versions>>
                  ELSE /\ query' = OutputBytes(out)
                       /\ ParseQuery(query')
          ELSE /\ env' = [env EXCEPT !.read = @ \cup {"dkp_pacman", "pacman"}]
               /\ using' = "pacman"
               /\ fail("Could not find dkp-pacman or pacman")
               /\ UNCHANGED <<query, versions, procs>>
    /\ UNCHANGED <<argv, args, swift_cmakelists, swift_version,
                   klepto_version, devkitpro_path, prepareVars, buildVars>>

\* lines 375-380
EnsureInstalled ==
    /\ pc = "check_installed"
    /\ IF "devkitA64" \notin DOMAIN versions
       THEN fail("devkitA64 does not seem to be installed")
       ELSE IF "libnx" \notin DOMAIN versions
       THEN fail("libnx does not seem to be installed")
       ELSE Goto("swift_version")
    /\ UNCHANGED <<argv, args, env, restVars>>

\* ------------------------------------------------- swift/CMakeLists.txt
\* The file is the sequence of its statements; set(VAR "value") is
\* [var |-> VAR, value |-> value].
Statements ==
    { [var |-> "SWIFT_VERSION", value |-> "5.4"],
      [var |-> "SWIFT_VERSION", value |-> "5.5"],
      [var |-> "KLEPTO_VERSION", value |-> "0.2"],
      [var |-> "CMAKE_CXX_STANDARD", value |-> "14"] }

NoFile == [exists |-> FALSE, text |-> <<>>]
File(text) == [exists |-> TRUE, text |-> text]

CMakeFiles == {NoFile} \cup {File(t) : t \in SeqsUpTo(Statements, MaxStmts)}

SampleFiles ==
    { File(<< [var |-> "CMAKE_CXX_STANDARD", value |-> "14"],
              [var |-> "SWIFT_VERSION", value |-> "5.4"],
              [var |-> "KLEPTO_VERSION", value |-> "0.2"] >>),
      File(<< [var |-> "SWIFT_VERSION", value |-> "5.4"] >>),
      File(<< [var |-> "KLEPTO_VERSION", value |-> "0.2"] >>),
      NoFile }

\* re.search(r'set\(VAR "(.*?)"\)', text): position of the first match, 0
\* for no match
re_search(var, text) ==
    LET hits == {i \in 1..Len(text) : text[i].var = var}
    IN IF hits = {} THEN 0 ELSE CHOOSE i \in hits : \A j \in hits : i <= j

\* lines 382-397
ParseSwiftCMakeLists(files) ==
    /\ pc = "swift_version"
    /\ \E file \in files :
          /\ swift_cmakelists' = file
          /\ env' = [env EXCEPT !.read = @ \cup {"cmakelists"}]
          /\ IF ~file.exists
             THEN /\ fail("Did not find swift source code")
                  /\ UNCHANGED <<swift_version, klepto_version>>
             ELSE IF re_search("SWIFT_VERSION", file.text) = 0
             THEN /\ fail("Unable to parse SWIFT_VERSION")
                  /\ UNCHANGED <<swift_version, klepto_version>>
             ELSE IF re_search("KLEPTO_VERSION", file.text) = 0
             THEN /\ fail("Unable to parse KLEPTO_VERSION")
                  /\ swift_version' =
                        file.text[re_search("SWIFT_VERSION", file.text)].value
                  /\ UNCHANGED klepto_version
             ELSE /\ swift_version' =
                        file.text[re_search("SWIFT_VERSION", file.text)].value
                  /\ klepto_version' =
                        file.text[re_search("KLEPTO_VERSION", file.text)].value
                  /\ Goto("check_devkitpro")
    /\ UNCHANGED <<argv, args, using, query, versions, devkitpro_path,
                   prepareVars, buildVars, procs>>

\* lines 400-415.  icu: libicuuc-libnx exists; value: what getenv returns;
\* dir: the directory it names exists
CheckDevkitproAndIcu ==
    /\ pc = "check_devkitpro"
    /\ \E icu \in BOOLEAN, value \in {PyNone, "", "/opt/devkitpro"},
          dir \in BOOLEAN :
          IF ~icu
          THEN /\ env' = [env EXCEPT !.read = @ \cup {"icu"}]
               /\ fail("Directory libicuuc-libnx was not found")
               /\ UNCHANGED devkitpro_path
          ELSE IF ~Truthy(value)
          THEN /\ env' = [env EXCEPT !.read = @ \cup {"icu"}, !.icu = TRUE]
               /\ fail("DEVKITPRO environment variable is not set")
               /\ devkitpro_path' = value
          ELSE /\ env' = [env EXCEPT !.read = @ \cup {"icu", "devkitpro"},
                                     !.icu = TRUE, !.devkitpro = dir]
               /\ devkitpro_path' = value
               /\ IF ~dir
                  THEN fail("Directory DEVKITPRO was not found")
                  ELSE Goto("prepare_build")
    /\ UNCHANGED <<argv, args, using, query, versions, swift_version,
                   klepto_version, swift_cmakelists, prepareVars, buildVars,
                   procs>>

\* ------------------------------------------------------------ file system
IsPrefix(p, q) == Len(p) <= Len(q) /\ SubSeq(q, 1, Len(p)) = p

\* Path.parent
Parent(path) == SubSeq(path, 1, Len(path) - 1)

\* Path.mkdir(parents=True, exist_ok=True)
Mkdir(files, path) == files \cup {SubSeq(path, 1, k) : k \in 1..Len(path)}

\* ------------------------------------------------------------ preparation
\* line 417
VersionsStr(sv, v) ==
    "swift[" \o sv \o "]+dkA64[" \o v["devkitA64"] \o "]+lnx[" \o v["libnx"]
        \o "]"

\* line 424
DistName(kv, configuration) ==
    "klepto-" \o kv \o "-" \o Upper(configuration) \o "-" \o platform_string

\* lines 426-430
InstallDestdir(a, dist) ==
    IF ~Truthy(a.install_destdir) THEN <<"dist", dist>>
    ELSE <<a.install_destdir>>

\* ProductsToBuild with the flags ignored
ProductsToBuildAll(a) == products

\* lines 432-438
ProductsToBuild(a) ==
    LET flagged(p) == a.only[p.name]
        subset == SelectSeq(products, flagged)
    IN IF subset # <<>> THEN subset ELSE products

\* lines 417-445
PrepareBuild ==
    /\ pc = "prepare_build"
    /\ versions_str' = VersionsStr(swift_version, versions)
    /\ dist_name' = DistName(klepto_version, args.configuration)
    /\ install_destdir' = InstallDestdir(args, dist_name')
    /\ products_to_build' = ProductsToBuild(args)
    /\ fs' = Mkdir(fs, install_destdir')
    /\ idx' = 1
    /\ Goto("build")
    /\ UNCHANGED <<argv, args, env, resolveVars, swift_cmakelists, klepto_path,
                   invoked, manifest, archive, procs>>

\* -------------------------------------------------------------- build loop
Current == products_to_build[idx]

\* line 448
product_destdir == install_destdir \o <<Current.install_path>>

BuildProc(cmd, rc) == [cmd |-> cmd, rc |-> rc, by |-> Current.name]

\* LoopHead without the test of args.dry_run
LoopHeadAlways(name) ==
    /\ pc = "build"
    /\ idx <= Len(products_to_build)
    /\ Current.name = name

\* lines 447-454: the loop is at the product called name and calls its
\* builder
LoopHead(name) ==
    /\ pc = "build"
    /\ idx <= Len(products_to_build)
    /\ Current.name = name
    /\ ~args.dry_run

\* the builder returned: next product, or the manifest after the last one
Return ==
    /\ idx' = idx + 1
    /\ Goto(IF idx = Len(products_to_build) THEN "write_manifest"
            ELSE "build")

\* the builder called fail(message)
BuilderFail(message) ==
    /\ fail(message)
    /\ UNCHANGED idx

\* the builder raised
BuilderRaise(exc) ==
    /\ Raise(exc)
    /\ UNCHANGED idx

\* lines 447-461 with --dry-run: the directory, and no builder
DryRunIteration ==
    /\ pc = "build"
    /\ idx <= Len(products_to_build)
    /\ args.dry_run
    /\ fs' = Mkdir(fs, product_destdir)
    /\ Return
    /\ UNCHANGED <<argv, args, env, resolveVars, swift_cmakelists, versions_str,
                   dist_name, install_destdir, products_to_build,
                   klepto_path, invoked, manifest, archive, procs>>

\* what stays as it is while a builder runs
BuilderFrame ==
    UNCHANGED <<argv, args, env, resolveVars, swift_cmakelists, versions_str,
                dist_name, install_destdir, products_to_build, manifest,
                archive>>

\* lines 70-96.  On success build-script has installed the compilers under
\* install_destdir/usr/bin.
build_toolchain ==
    /\ LoopHead("toolchain")
    /\ invoked' = Append(invoked, "toolchain")
    /\ \E rc \in {0, 1} :
          /\ procs' = Append(procs, BuildProc("build-script", rc))
          /\ IF rc # 0
             THEN /\ BuilderFail("Failed to build toolchain with preset")
                  /\ fs' = Mkdir(fs, product_destdir)
             ELSE /\ fs' = Mkdir(Mkdir(fs,
                               product_destdir \o <<"usr", "bin", "clang">>),
                               product_destdir \o <<"usr", "bin", "clang++">>)
                  /\ Return
    /\ UNCHANGED klepto_path
    /\ BuilderFrame

\* lines 99-132
build_swiftpm ==
    /\ LoopHead("swiftpm")
    /\ invoked' = Append(invoked, "swiftpm")
    /\ \E rc_build \in {0, 1}, rc_install \in {0, 1} :
          IF rc_build # 0
          THEN /\ procs' = Append(procs, BuildProc("bootstrap build", rc_build))
               /\ BuilderFail("Could not build swiftpm")
               /\ fs' = Mkdir(fs, product_destdir)
          ELSE /\ procs' = procs \o << BuildProc("bootstrap build", rc_build),
                                       BuildProc("bootstrap install",
                                                 rc_install) >>
               /\ IF rc_install # 0
                  THEN /\ BuilderFail("Could not install swiftpm")
                       /\ fs' = Mkdir(fs, product_destdir)
                  ELSE /\ fs' = Mkdir(fs, product_destdir \o <<"bin">>)
                       /\ Return
    /\ UNCHANGED klepto_path
    /\ BuilderFrame

\* lines 135-162.  libicuuc-libnx was found at line 402 and is still there
\* at line 146; folders: it has the lib and stubdata folders copytree reads
build_icu ==
    /\ LoopHead("icu")
    /\ invoked' = Append(invoked, "icu")
    /\ \E folders \in BOOLEAN :
          IF ~folders
          THEN /\ BuilderRaise("FileNotFoundError")
               /\ fs' = Mkdir(fs, product_destdir)
          ELSE /\ fs' = Mkdir(Mkdir(fs, product_destdir \o <<"lib">>),
                              product_destdir \o <<"stubdata">>)
               /\ Return
    /\ UNCHANGED <<klepto_path, procs>>
    /\ BuilderFrame

\* what can be at <destdir>/klepto when the frontend builder looks
PathStates == {"absent", "symlink", "dangling symlink", "file", "directory"}

\* Path.exists() follows symbolic links
exists(state) == state \in {"symlink", "file", "directory"}

\* lines 165-181
build_frontend ==
    /\ LoopHead("frontend")
    /\ invoked' = Append(invoked, "frontend")
    /\ \E found \in PathStates :
          LET copied == Mkdir(fs, product_destdir \o <<"klepto-frontend">>)
              unlinked == IF exists(found) THEN "absent" ELSE found
          IN IF exists(found) /\ found = "directory"
             THEN /\ BuilderRaise("IsADirectoryError")
                  /\ klepto_path' = [found |-> found, left |-> found]
                  /\ fs' = copied
             ELSE IF unlinked # "absent"
             THEN /\ BuilderRaise("FileExistsError")
                  /\ klepto_path' = [found |-> found, left |-> found]
                  /\ fs' = copied
             ELSE /\ klepto_path' = [found |-> found, left |-> "symlink"]
                  /\ fs' = copied \cup {Parent(product_destdir) \o <<"klepto">>}
                  /\ Return
    /\ UNCHANGED procs
    /\ BuilderFrame

\* lines 184-268.  The exit codes of the compiler probe, of cmake and of
\* ninja are not read.
build_libdispatch ==
    /\ LoopHead("libdispatch")
    /\ invoked' = Append(invoked, "libdispatch")
    /\ \E rc_cmake \in {0, 1}, rc_ninja \in {0, 1} :
          procs' = procs \o << BuildProc("aarch64-none-elf-gcc", 0),
                               BuildProc("cmake", rc_cmake),
                               BuildProc("ninja", rc_ninja) >>
    /\ fs' = Mkdir(Mkdir(fs, product_destdir), <<"build", "libdispatch">>)
    /\ Return
    /\ UNCHANGED klepto_path
    /\ BuilderFrame

\* -------------------------------------------------- manifest and package
\* ManifestVersions without the filter of lines 469-474
ManifestVersionsUnfiltered(v, sv, kv) ==
    [k \in DOMAIN v \cup {"swift", "klepto"} |->
        IF k = "klepto" THEN kv ELSE IF k = "swift" THEN sv ELSE v[k]]

\* lines 468-478
ManifestVersions(v, sv, kv) ==
    LET kept == {package \in DOMAIN v : package \in relevant_packages}
    IN [k \in kept \cup {"swift", "klepto"} |->
           IF k = "klepto" THEN kv ELSE IF k = "swift" THEN sv ELSE v[k]]

\* lines 463-488
WriteManifest ==
    /\ pc = "write_manifest"
    /\ versions' = ManifestVersions(versions, swift_version, klepto_version)
    /\ manifest' = [writes |-> manifest.writes + 1,
                    content |-> [versions |-> versions']]
    /\ fs' = fs \cup {install_destdir \o <<"manifest.json">>}
    /\ Goto("package")
    /\ UNCHANGED <<argv, args, env, using, query, swift_cmakelists, swift_version,
                   klepto_version, devkitpro_path, prepareVars, klepto_path,
                   invoked, archive, procs>>

NoArchive == [file |-> <<>>, members |-> {}]

\* TarAdd without arcname: the tree keeps its own name
TarAddOwnName(files, tree, arcname) ==
    {SubSeq(f, Len(tree), Len(f)) : f \in {g \in files : IsPrefix(tree, g)}}

\* tfile.add(tree, arcname=arcname): the tree and all below it, renamed
TarAdd(files, tree, arcname) ==
    {<<arcname>> \o SubSeq(f, Len(tree) + 1, Len(f)) :
        f \in {g \in files : IsPrefix(tree, g)}}

\* lines 490-501
Package ==
    /\ pc = "package"
    /\ IF Truthy(args.package)
       THEN LET package_file == <<args.package, dist_name \o ".tar.gz">>
            IN /\ archive' = [file |-> package_file,
                              members |-> TarAdd(fs, install_destdir,
                                                 dist_name)]
               /\ fs' = Mkdir(fs, Parent(package_file)) \cup {package_file}
       ELSE UNCHANGED <<archive, fs>>
    /\ pc' = "done"
    /\ exit_status' = 0
    /\ UNCHANGED <<argv, args, env, resolveVars, swift_cmakelists, prepareVars,
                   klepto_path, invoked, manifest, procs, fail_message,
                   exception>>

NextWith(outputs, files) ==
    \/ ParseArgs
    \/ ArgumentsSanityCheck
    \/ RequiredSoftwareCheck
    \/ ResolveVersions(outputs)
    \/ EnsureInstalled
    \/ ParseSwiftCMakeLists(files)
    \/ CheckDevkitproAndIcu
    \/ PrepareBuild
    \/ DryRunIteration
    \/ build_libdispatch
    \/ build_icu
    \/ build_toolchain
    \/ build_swiftpm
    \/ build_frontend
    \/ WriteManifest
    \/ Package

Next == NextWith(SampleOutputs, SampleFiles)

\* Every command line; the package database and the source tree are the
\* samples.
Spec == Init /\ [][Next]_vars

\* ------------------------------------------------- the version pipeline
\* One product, built or not; every output of the package query and every
\* swift/CMakeLists.txt within the bounds.
VersionCommandLines ==
    [only : {<<"icu">>},
     install_destdir : {PyNone},
     configuration : {"release"},
     package : {"<absent>"},
     dry_run : BOOLEAN,
     no_reconfigure : {FALSE}]

InitVersions == InitWith(VersionCommandLines)

NextVersions ==
    \/ ParseArgs
    \/ ArgumentsSanityCheck
    \/ RequiredSoftwareCheck
    \/ ResolveVersions(QueryOutputs)
    \/ EnsureInstalled
    \/ ParseSwiftCMakeLists(CMakeFiles)
    \/ CheckDevkitproAndIcu
    \/ PrepareBuild
    \/ DryRunIteration
    \/ build_icu
    \/ WriteManifest
    \/ Package

SpecVersions == InitVersions /\ [][NextVersions]_vars

\* ------------------------------------------------------------- properties
\* the run was started with packaging requested: a bare --package or one
\* with a location
PackageRequested == Truthy(PackageArg(argv.package))

\* the products the command line selects, in registry order
SelectedNames ==
    LET all == [i \in 1..Len(products) |-> products[i].name]
        flagged(n) == n \in Range(argv.only)
    IN IF argv.only = <<>> THEN all ELSE SelectSeq(all, flagged)

\* the subprocesses the builders launch to build
BuildCommands ==
    {"build-script", "bootstrap build", "bootstrap install", "cmake", "ninja"}

Position(seq, x) == CHOOSE i \in 1..Len(seq) : seq[i] = x

\* the output of the query has only "name version" lines, devkitA64 and
\* libnx among them
ValidOutput(out) ==
    /\ DictWellFormed(EntryItems(out))
    /\ \E i \in 1..Len(out) : out[i] # <<>> /\ out[i][1] = "devkitA64"
    /\ \E i \in 1..Len(out) : out[i] # <<>> /\ out[i][1] = "libnx"

\* C1: when dkp-pacman cannot be launched and pacman answers with valid
\* "name version" lines naming devkitA64 and libnx, the version resolution
\* does not end the run and the VersionMap holds those entries.
C1_PacmanFallbackResolves ==
    (using = "pacman" /\ query.type = "bytes" /\ ValidOutput(query.value))
        => /\ exception = ""
           /\ {"devkitA64", "libnx"} \subseteq DOMAIN versions

\* C2: in a run that builds, when toolchain and libdispatch are both
\* selected the toolchain builder was invoked before the libdispatch
\* builder is.
C2_ToolchainBeforeLibdispatch ==
    ("libdispatch" \in Range(invoked) /\ "toolchain" \in Range(SelectedNames))
        => /\ "toolchain" \in Range(invoked)
           /\ Position(invoked, "toolchain") < Position(invoked, "libdispatch")

\* C3: a build subprocess that exits non-zero is the last subprocess and
\* its builder the last builder of the run, which ends with exit status 1
\* and a "!!! " message, without manifest and without archive.
C3_NonZeroExitEndsRun ==
    \A i \in 1..Len(procs) :
        (procs[i].cmd \in BuildCommands /\ procs[i].rc # 0)
            => /\ i = Len(procs)
               /\ invoked[Len(invoked)] = procs[i].by
               /\ pc = "exited"
               /\ exit_status = 1
               /\ fail_message # ""
               /\ manifest.writes = 0
               /\ archive = NoArchive

\* C4: in a run that builds, the builders invoked so far are a prefix of
\* the registry filtered to the flagged products (the whole registry when
\* no flag is given), and once the loop is over they are all of it, in
\* registry order, each once, whatever the order of the flags.
C4_BuildersInRegistryOrder ==
    ~argv.dry_run
        => /\ Len(invoked) <= Len(SelectedNames)
           /\ invoked = SubSeq(SelectedNames, 1, Len(invoked))
           /\ pc \in {"write_manifest", "package", "done"}
                 => invoked = SelectedNames

C4_Witness ==
    /\ pc = "done"
    /\ ~argv.dry_run
    /\ argv.only = <<"swiftpm", "icu">>
    /\ invoked = <<"icu", "swiftpm">>

\* C5: a dry run invokes no builder and launches no subprocess but the
\* package query, and when it completes the install root and the install
\* directory of every selected product exist, the manifest was written once
\* and the archive was written exactly when packaging was requested.
C5_DryRunBuildsNothing ==
    argv.dry_run
        => /\ invoked = <<>>
           /\ \A i \in 1..Len(procs) : procs[i].by = "query"
           /\ pc = "done"
                 => /\ install_destdir \in fs
                    /\ \A i \in 1..Len(products) :
                          products[i].name \in Range(SelectedNames)
                              => install_destdir
                                     \o <<products[i].install_path>> \in fs
                    /\ manifest.writes = 1
                    /\ install_destdir \o <<"manifest.json">> \in fs
                    /\ (archive # NoArchive) <=> PackageRequested

C5_Witness ==
    /\ pc = "done"
    /\ argv.dry_run
    /\ argv.only = <<>>
    /\ PackageRequested
    /\ archive # NoArchive
    /\ install_destdir \o <<"klepto-frontend">> \in fs

Validated ==
    /\ {"which", "dkp_pacman", "cmakelists", "icu", "devkitpro"}
          \subseteq env.read
    /\ env.which = Range(required_software)
    /\ env.dkp_pacman \/ env.pacman
    /\ query.type = "CompletedProcess"
    /\ \E i \in 1..Len(query.stdout) :
          query.stdout[i] # <<>> /\ query.stdout[i][1] = "devkitA64"
    /\ \E i \in 1..Len(query.stdout) :
          query.stdout[i] # <<>> /\ query.stdout[i][1] = "libnx"
    /\ swift_cmakelists.exists
    /\ \E i \in 1..Len(swift_cmakelists.text) :
          swift_cmakelists.text[i].var = "SWIFT_VERSION"
    /\ \E i \in 1..Len(swift_cmakelists.text) :
          swift_cmakelists.text[i].var = "KLEPTO_VERSION"
    /\ env.icu
    /\ Truthy(devkitpro_path)
    /\ env.devkitpro

\* what the script read fails one of the checks
CheckFailed ==
    \/ "which" \in env.read /\ env.which # Range(required_software)
    \/ "pacman" \in env.read /\ ~env.dkp_pacman /\ ~env.pacman
    \/ /\ query.type = "CompletedProcess"
       /\ \/ \A i \in 1..Len(query.stdout) :
                query.stdout[i] # <<>> => query.stdout[i][1] # "devkitA64"
          \/ \A i \in 1..Len(query.stdout) :
                query.stdout[i] # <<>> => query.stdout[i][1] # "libnx"
    \/ /\ "cmakelists" \in env.read
       /\ \/ ~swift_cmakelists.exists
          \/ \A i \in 1..Len(swift_cmakelists.text) :
                swift_cmakelists.text[i].var # "SWIFT_VERSION"
          \/ \A i \in 1..Len(swift_cmakelists.text) :
                swift_cmakelists.text[i].var # "KLEPTO_VERSION"
    \/ "icu" \in env.read /\ ~env.icu
    \/ "icu" \in env.read /\ env.icu /\ ~Truthy(devkitpro_path)
    \/ "devkitpro" \in env.read /\ ~env.devkitpro

\* C7: a builder is invoked only when every validation check has passed;
\* once the script has read something that fails a check no builder is
\* ever invoked, and the run ends with exit status 1 in that check (the
\* package set is read one step before it is checked).
C7_NoBuilderBeforeValidation ==
    /\ invoked # <<>> => Validated
    /\ CheckFailed
          => /\ invoked = <<>>
             /\ pc \in {"check_installed", "exited"}
             /\ pc = "exited" => exit_status = 1

C7_Witness ==
    /\ invoked = <<"libdispatch">>
    /\ Validated
    /\ pc = "build"

\* the version of the last "package version" line of the output
QueriedVersion(out, package) ==
    LET at == {i \in 1..Len(out) : out[i] # <<>> /\ out[i][1] = package}
        last == CHOOSE i \in at : \A j \in at : j <= i
    IN out[last][2]

\* the value of the first set(VAR "value") of the file
FirstSet(text, var) ==
    LET at == {i \in 1..Len(text) : text[i].var = var}
        first == CHOOSE i \in at : \A j \in at : i <= j
    IN text[first].value

\* C8: the versions object of the manifest has exactly the keys devkitA64,
\* libnx, swift and klepto; the first two carry the queried versions, the
\* last two the values of set(SWIFT_VERSION ...) and set(KLEPTO_VERSION ...).
C8_ManifestVersions ==
    manifest.writes > 0
        => LET v == manifest.content.versions
           IN /\ DOMAIN v = {"devkitA64", "libnx", "swift", "klepto"}
              /\ v["devkitA64"] = QueriedVersion(query.stdout, "devkitA64")
              /\ v["libnx"] = QueriedVersion(query.stdout, "libnx")
              /\ v["swift"] = FirstSet(swift_cmakelists.text, "SWIFT_VERSION")
              /\ v["klepto"]
                    = FirstSet(swift_cmakelists.text, "KLEPTO_VERSION")

C8_Witness ==
    /\ pc = "done"
    /\ ~argv.dry_run
    /\ query.stdout = << <<"foo", "9.9.9">>, <<"devkitA64", "1.2.3">>,
                         <<"libnx", "4.5.6">> >>
    /\ manifest.content.versions
          = [k \in {"devkitA64", "libnx", "swift", "klepto"} |->
                CASE k = "devkitA64" -> "1.2.3"
                  [] k = "libnx" -> "4.5.6"
                  [] k = "swift" -> "5.5"
                  [] k = "klepto" -> "0.2"]

\* the top-level directory the archive is to hold
ArchiveRoot ==
    "klepto-" \o klepto_version \o "-" \o Upper(argv.configuration) \o "-"
        \o platform_string

\* C9: the manifest is written at most once, only when the build loop is
\* over, and exactly once in a run that completes; the archive is written
\* only after the manifest and holds every path of the install tree,
\* manifest.json included, below the one directory ArchiveRoot.
C9_ManifestThenArchive ==
    /\ manifest.writes <= 1
    /\ manifest.writes = 1
          => /\ pc \in {"package", "done"}
             /\ idx = Len(products_to_build) + 1
             /\ ~argv.dry_run => invoked = SelectedNames
    /\ pc = "done" => manifest.writes = 1
    /\ archive # NoArchive
          => /\ manifest.writes = 1
             /\ <<ArchiveRoot, "manifest.json">> \in archive.members
             /\ \A m \in archive.members : m[1] = ArchiveRoot
             /\ \A f \in fs :
                   IsPrefix(install_destdir, f)
                       => <<ArchiveRoot>>
                              \o SubSeq(f, Len(install_destdir) + 1, Len(f))
                          \in archive.members
    /\ (pc = "done" /\ PackageRequested) => archive # NoArchive

C9_Witness ==
    /\ pc = "done"
    /\ ~argv.dry_run
    /\ argv.install_destdir = "out"
    /\ argv.configuration = "debug"
    /\ archive.file = <<"dist", "klepto-0.2-DEBUG-ubuntu20.04-x86_64.tar.gz">>
    /\ <<"klepto-0.2-DEBUG-ubuntu20.04-x86_64", "toolchain", "usr", "bin",
         "clang">> \in archive.members

\* C10: when the frontend builder finds <destdir>/klepto absent or a
\* symbolic link, dangling or not, it completes and leaves a symbolic link
\* there.
C10_FrontendReplacesLink ==
    klepto_path.found \in {"absent", "symlink", "dangling symlink"}
        => /\ klepto_path.left = "symlink"
           /\ exception = ""
====
